---- MODULE Spec2Model ----
(***************************************************************************)
(* Miller-Rabin probabilistic primality test (src/main.py).                *)
(*                                                                         *)
(* The three functions of the module are modelled as one sequential        *)
(* program with a program counter:                                         *)
(*   is_prime_miller_rabin(n, k)   -- fast paths, decomposition, k trials  *)
(*   find_miller_rabin_r_s(n)      -- n - 1 = r * 2^s, r odd               *)
(*   miller_rabin_rand_test(n,s,r) -- one trial with a random witness      *)
(* A behaviour is one top-level call; its arguments are chosen in Init.    *)
(***************************************************************************)
EXTENDS Integers, FiniteSets, Sequences, TLC

VARIABLES
    entry,      \* which function the top-level call enters
    pc,         \* position of the running call
    n, k,       \* arguments of the top-level call
    s, r,       \* is_prime_miller_rabin's locals (line 20), the decomposer's returned pair
    i,          \* iterations of `for _ in range(k)` started so far (line 22)
    ds, dr,     \* find_miller_rabin_r_s's locals s, r (lines 36-41)
    tn, ts, tr, \* miller_rabin_rand_test's parameters n, s, r (line 45)
    a, x, j,    \* miller_rabin_rand_test's locals (lines 60-68)
    tret,       \* value returned by the last trial (lines 67, 70, 71)
    result,     \* value returned by is_prime_miller_rabin: "None" until it returns
    decompCalls,\* history: calls of find_miller_rabin_r_s (line 20)
    halvings,   \* history: iterations of the decomposer's loop (lines 40-41)
    trials,     \* history: calls of miller_rabin_rand_test (line 23)
    draws,      \* history: witnesses drawn by randrange (line 60)
    passed,     \* history: trials that returned True
    squarings   \* history: pow(x, 2, n) evaluations of the current trial (line 65)

vars == <<entry, pc, n, k, s, r, i, ds, dr, tn, ts, tr, a, x, j, tret, result,
          decompCalls, halvings, trials, draws, passed, squarings>>

----------------------------------------------------------------------------
(* Bounds of the model and constants of the program *)

\* candidates n range over -MaxNegN .. MaxN, plus the self-test's lists
MaxN == 25
MaxNegN == 2
\* trial counts k range over -MaxNegK .. MaxK, plus the default
MaxK == 2
MaxNegK == 1

\* def is_prime_miller_rabin(n, k=128)
DefaultK == 128

\* do_basic_tests: basic_primes, basic_composites
basic_primes == {2, 3, 5, 7, 11, 13, 17, 19, 23, 53, 101, 131}
basic_composites == {4, 6, 8, 9, 10, 16, 85, 94, 124, 133}

Candidates == ((0 - MaxNegN)..MaxN) \cup basic_primes \cup basic_composites
TrialCounts == (0 - MaxNegK)..MaxK

----------------------------------------------------------------------------
(* Built-ins used by the code *)

\* pow(b, e, m) for e >= 0, m > 0: modular exponentiation by squaring
RECURSIVE pow(_, _, _)
pow(b, e, m) ==
    IF e = 0 THEN 1 % m
    ELSE IF e % 2 = 1 THEN ((b % m) * pow(b, e - 1, m)) % m
    ELSE LET h == pow(b, e \div 2, m) IN (h * h) % m

\* randrange(lo, hi): the values lo <= v < hi; empty range raises ValueError
randrange(lo, hi) == lo..(hi - 1)

\* r & 1 (two's complement: the parity of r)
LowBit(v) == v % 2

----------------------------------------------------------------------------
(* Conditions and expressions of the code *)

\* line 15: if n == 2 or n == 3
IsTwoOrThree(m) == m = 2 \/ m = 3

\* line 17: if n <= 1 or n % 2 == 0
IsTrivialCompositeNoEven(m) == m <= 1
IsTrivialComposite(m) == m <= 1 \/ m % 2 = 0

\* lines 36-37: s = 0; r = n - 1
DecompInitOffByOne(m) == [s |-> 0, r |-> m]
DecompInit(m) == [s |-> 0, r |-> m - 1]

\* line 39: while r & 1 == 0
DecompCond(v) == LowBit(v) = 0

\* line 22: for _ in range(k) has another iteration
HasNextInclusive(it, cnt) == it <= cnt
HasNext(it, cnt) == it < cnt

\* line 60: a = randrange(2, n - 1)
WitnessRangeDocstring(m) == randrange(1, m)
WitnessRange(m) == randrange(2, m - 1)

\* line 62: if x != 1 and x != n - 1
NeedsSquaringOr(v, m) == v # 1 \/ v # m - 1
NeedsSquaring(v, m) == v # 1 /\ v # m - 1

\* line 64: while j < s and x != n - 1
WhileCondInclusive(jj, ss, v, m) == jj <= ss /\ v # m - 1
WhileCondNoBreak(jj, ss, v, m) == jj < ss
WhileCond(jj, ss, v, m) == jj < ss /\ v # m - 1

\* lines 69-71: if x != n - 1: return False; return True
AfterLoopAlwaysTrue(v, m) == TRUE
AfterLoop(v, m) == v = m - 1

\* line 23-24: if not miller_rabin_rand_test(...): return False
ShortCircuitNever(t) == FALSE
ShortCircuit(t) == ~t

\* line 23: the arguments is_prime_miller_rabin passes to a trial
TrialArgsSwapped(m, ss, rr) == [n |-> m, s |-> rr, r |-> ss]
TrialArgs(m, ss, rr) == [n |-> m, s |-> ss, r |-> rr]

----------------------------------------------------------------------------
(* miller_rabin_rand_test as a function of the witness drawn (lines 61-71) *)

RECURSIVE TrialLoop(_, _, _, _)
TrialLoop(m, ss, v, jj) ==
    IF WhileCond(jj, ss, v, m)
    THEN LET v2 == pow(v, 2, m) IN
         IF v2 = 1 THEN FALSE ELSE TrialLoop(m, ss, v2, jj + 1)
    ELSE AfterLoop(v, m)

miller_rabin_test(m, ss, rr, w) ==
    LET v == pow(w, rr, m) IN
    IF NeedsSquaring(v, m) THEN TrialLoop(m, ss, v, 1) ELSE TRUE

----------------------------------------------------------------------------
(* Initial states: one top-level call *)

Init ==
    /\ \/ /\ entry = "is_prime_miller_rabin"
          /\ pc = "ip_start"
          /\ \/ n \in Candidates /\ k \in TrialCounts
             \/ n \in basic_primes \cup basic_composites /\ k = DefaultK
       \/ /\ entry = "find_miller_rabin_r_s"
          /\ pc = "d_start"
          /\ n \in {m \in Candidates : m > 1 /\ m % 2 = 1}
          /\ k = 0
    /\ s = 0 /\ r = 0 /\ i = 0
    /\ ds = 0 /\ dr = 0
    /\ tn = 0 /\ ts = 0 /\ tr = 0
    /\ a = 0 /\ x = 0 /\ j = 0
    /\ tret = FALSE
    /\ result = "None"
    /\ decompCalls = 0 /\ halvings = 0 /\ trials = 0
    /\ draws = 0 /\ passed = 0 /\ squarings = 0

----------------------------------------------------------------------------
(* is_prime_miller_rabin *)

callerVars == <<entry, n, k>>
decompVars == <<ds, dr, decompCalls, halvings>>
trialVars == <<tn, ts, tr, a, x, j, tret, trials, draws, passed, squarings>>

\* lines 15-16
FastPathTrue ==
    /\ pc = "ip_start"
    /\ IsTwoOrThree(n)
    /\ result' = "True"
    /\ pc' = "done"
    /\ UNCHANGED <<callerVars, s, r, i, decompVars, trialVars>>

\* lines 17-18
FastPathFalse ==
    /\ pc = "ip_start"
    /\ ~IsTwoOrThree(n)
    /\ IsTrivialComposite(n)
    /\ result' = "False"
    /\ pc' = "done"
    /\ UNCHANGED <<callerVars, s, r, i, decompVars, trialVars>>

\* line 20: call find_miller_rabin_r_s(n)
CallDecomposer ==
    /\ pc = "ip_start"
    /\ ~IsTwoOrThree(n)
    /\ ~IsTrivialComposite(n)
    /\ pc' = "d_start"
    /\ UNCHANGED <<callerVars, s, r, i, result, decompVars, trialVars>>

\* line 22 with another iteration, line 23: call miller_rabin_rand_test(n, s, r)
CallTrial ==
    /\ pc = "ip_for"
    /\ HasNext(i, k)
    /\ i' = i + 1
    /\ LET args == TrialArgs(n, s, r) IN
       /\ tn' = args.n
       /\ ts' = args.s
       /\ tr' = args.r
    /\ trials' = trials + 1
    /\ squarings' = 0
    /\ pc' = "t_draw"
    /\ UNCHANGED <<callerVars, s, r, result, decompVars, a, x, j, tret, draws, passed>>

\* line 22 exhausted, line 25: return True
ReturnTrue ==
    /\ pc = "ip_for"
    /\ ~HasNext(i, k)
    /\ result' = "True"
    /\ pc' = "done"
    /\ UNCHANGED <<callerVars, s, r, i, decompVars, trialVars>>

\* lines 23-24: the trial returned False: return False
ReturnFalse ==
    /\ pc = "ip_ret"
    /\ ShortCircuit(tret)
    /\ result' = "False"
    /\ pc' = "done"
    /\ UNCHANGED <<callerVars, s, r, i, decompVars, trialVars>>

\* line 23: the trial returned True: back to the loop head; the trial's frame is gone
NextIteration ==
    /\ pc = "ip_ret"
    /\ ~ShortCircuit(tret)
    /\ pc' = "ip_for"
    /\ tn' = 0 /\ ts' = 0 /\ tr' = 0
    /\ a' = 0 /\ x' = 0 /\ j' = 0
    /\ squarings' = 0
    /\ UNCHANGED <<callerVars, s, r, i, result, decompVars, tret, trials, draws, passed>>

----------------------------------------------------------------------------
(* find_miller_rabin_r_s *)

\* lines 36-37
DecompStart ==
    /\ pc = "d_start"
    /\ ds' = DecompInit(n).s
    /\ dr' = DecompInit(n).r
    /\ decompCalls' = decompCalls + 1
    /\ halvings' = 0
    /\ pc' = "d_loop"
    /\ UNCHANGED <<callerVars, s, r, i, result, trialVars>>

\* lines 39-41
DecompHalve ==
    /\ pc = "d_loop"
    /\ DecompCond(dr)
    /\ ds' = ds + 1
    /\ dr' = dr \div 2
    /\ halvings' = halvings + 1
    /\ UNCHANGED <<callerVars, pc, s, r, i, result, decompCalls, trialVars>>

\* line 42: return s, r (bound by the caller at line 20)
DecompReturn ==
    /\ pc = "d_loop"
    /\ ~DecompCond(dr)
    /\ s' = ds
    /\ r' = dr
    /\ pc' = IF entry = "is_prime_miller_rabin" THEN "ip_for" ELSE "done"
    /\ UNCHANGED <<callerVars, i, result, decompVars, trialVars>>

----------------------------------------------------------------------------
(* miller_rabin_rand_test *)

\* lines 60-61: a = randrange(2, n - 1); x = pow(a, r, n)
DrawWitness ==
    /\ pc = "t_draw"
    /\ IF WitnessRange(tn) = {}
       THEN /\ pc' = "ValueError"
            /\ UNCHANGED <<a, x, draws>>
       ELSE /\ \E w \in WitnessRange(tn) :
                 /\ a' = w
                 /\ x' = pow(w, tr, tn)
            /\ draws' = draws + 1
            /\ pc' = "t_if"
    /\ UNCHANGED <<callerVars, s, r, i, result, decompVars, tn, ts, tr, j, tret,
                   trials, passed, squarings>>

\* line 62 true, line 63: j = 1
EnterLoop ==
    /\ pc = "t_if"
    /\ NeedsSquaring(x, tn)
    /\ j' = 1
    /\ pc' = "t_while"
    /\ UNCHANGED <<callerVars, s, r, i, result, decompVars, tn, ts, tr, a, x, tret,
                   trials, draws, passed, squarings>>

\* line 62 false, line 71: return True
PassAtOnce ==
    /\ pc = "t_if"
    /\ ~NeedsSquaring(x, tn)
    /\ tret' = TRUE
    /\ passed' = passed + 1
    /\ pc' = "ip_ret"
    /\ UNCHANGED <<callerVars, s, r, i, result, decompVars, tn, ts, tr, a, x, j,
                   trials, draws, squarings>>

\* lines 64-68: one iteration of the while loop
Square ==
    /\ pc = "t_while"
    /\ WhileCond(j, ts, x, tn)
    /\ x' = pow(x, 2, tn)
    /\ squarings' = squarings + 1
    /\ IF x' = 1
       THEN /\ tret' = FALSE
            /\ pc' = "ip_ret"
            /\ j' = j
       ELSE /\ j' = j + 1
            /\ UNCHANGED <<tret, pc>>
    /\ UNCHANGED <<callerVars, s, r, i, result, decompVars, tn, ts, tr, a,
                   trials, draws, passed>>

\* line 64 false, lines 69-71
LoopExit ==
    /\ pc = "t_while"
    /\ ~WhileCond(j, ts, x, tn)
    /\ tret' = AfterLoop(x, tn)
    /\ passed' = IF AfterLoop(x, tn) THEN passed + 1 ELSE passed
    /\ pc' = "ip_ret"
    /\ UNCHANGED <<callerVars, s, r, i, result, decompVars, tn, ts, tr, a, x, j,
                   trials, draws, squarings>>

----------------------------------------------------------------------------

Next ==
    \/ FastPathTrue
    \/ FastPathFalse
    \/ CallDecomposer
    \/ DecompStart
    \/ DecompHalve
    \/ DecompReturn
    \/ CallTrial
    \/ ReturnTrue
    \/ DrawWitness
    \/ EnterLoop
    \/ PassAtOnce
    \/ Square
    \/ LoopExit
    \/ ReturnFalse
    \/ NextIteration

Spec == Init /\ [][Next]_vars

\* the interpreter runs the single thread until the call returns or raises
FairSpec == Spec /\ WF_vars(Next)

----------------------------------------------------------------------------
(* Reference arithmetic used to state the properties *)

IsPrimeNumber(m) == m > 1 /\ \A d \in 2..(m - 1) : m % d # 0

\* b^e mod m by e successive multiplications
RECURSIVE PowerMod(_, _, _)
PowerMod(b, e, m) == IF e = 0 THEN 1 % m ELSE (b * PowerMod(b, e - 1, m)) % m

\* 2^e, not computed beyond the first power above cap
RECURSIVE Pow2From(_, _, _)
Pow2From(e, acc, cap) ==
    IF e = 0 \/ acc > cap THEN acc ELSE Pow2From(e - 1, 2 * acc, cap)

Pow2Capped(e, cap) == Pow2From(e, 1, cap)

\* number of trailing zero bits of m > 0
RECURSIVE TrailingZeros(_)
TrailingZeros(m) == IF m % 2 = 1 THEN 0 ELSE 1 + TrailingZeros(m \div 2)

\* w is a strong liar for m = rr * 2^ss + 1
StrongProbablePrime(m, ss, rr, w) ==
    \/ PowerMod(w, rr, m) = 1
    \/ \E e \in 0..(ss - 1) : PowerMod(w, Pow2Capped(e, m) * rr, m) = m - 1

IsPrimeCall == entry = "is_prime_miller_rabin"
Returned == IsPrimeCall /\ pc = "done"
InDecomposer == pc \in {"d_start", "d_loop"}
InTrial == pc \in {"t_draw", "t_if", "t_while", "ip_ret"}
WitnessDrawn == pc \in {"t_if", "t_while", "ip_ret"}
Decomposed == pc \in {"ip_for", "t_draw", "t_if", "t_while", "ip_ret", "ValueError"}
                \/ (pc = "done" /\ decompCalls > 0)
OddAboveThree == n > 3 /\ n % 2 = 1

----------------------------------------------------------------------------
(* Properties *)

\* C1: no false negatives. For a prime n and any k, no trial returns False, the
\* witness draw never fails, and is_prime_miller_rabin returns True, whatever
\* witnesses are drawn.
C1_NoFalseNegative ==
    (IsPrimeCall /\ IsPrimeNumber(n)) =>
        /\ pc # "ValueError"
        /\ (pc = "ip_ret" => tret)
        /\ (pc = "done" => result = "True")

C1_Witness ==
    /\ Returned /\ n = 131 /\ k = DefaultK
    /\ result = "True" /\ draws = DefaultK

\* C2 as stated: is_prime_miller_rabin(n) with the default k returns False for
\* every n of basic_composites, whatever witnesses are drawn.
C2_AlwaysFalse ==
    (Returned /\ n \in basic_composites /\ k = DefaultK) => result = "False"

\* strong liars in [2, n-2] of the two basic composites that have any
LiarsOf(m) ==
    IF m = 85 THEN {13, 38, 47, 72}
    ELSE IF m = 133 THEN {11, 12, 27, 30, 31, 39, 58, 64, 69, 75, 94, 102, 103,
                          106, 121, 122}
    ELSE {}

\* C2 amended: for n in basic_composites and the default k, a trial returns True
\* only for n in {85, 133} and a witness that is a strong liar for n; the call
\* returns False unless all DefaultK trials passed, so it always returns False for
\* 4, 6, 8, 9, 10, 16, 94, 124.
C2_FalseUnlessAllLiars ==
    (IsPrimeCall /\ n \in basic_composites /\ k = DefaultK) =>
        /\ (pc = "ip_ret" /\ tret => a \in LiarsOf(n))
        /\ (pc = "done" =>
               \/ result = "False"
               \/ /\ result = "True"
                  /\ LiarsOf(n) # {}
                  /\ trials = DefaultK /\ passed = DefaultK)

C2_Witness ==
    /\ Returned /\ n = 85 /\ k = DefaultK
    /\ result = "False" /\ passed = 2 /\ trials = 3

\* C3: for n <= 3 or n even, and any k, the call returns True exactly when n is 2
\* or 3 and False otherwise, without calling the decomposer or a trial and without
\* drawing a witness.
C3_FastPaths ==
    (IsPrimeCall /\ (n <= 3 \/ n % 2 = 0)) =>
        /\ pc \in {"ip_start", "done"}
        /\ decompCalls = 0 /\ trials = 0 /\ draws = 0
        /\ (pc = "done" => result = IF n = 2 \/ n = 3 THEN "True" ELSE "False")

C3_Witness ==
    /\ Returned /\ n = 2 /\ k = 0 - MaxNegK
    /\ result = "True" /\ decompCalls = 0

\* C4: for an odd composite n > 3 with (s, r) from the decomposer, the witnesses
\* of [2, n-2] for which a trial returns True are at most a quarter of that range;
\* every trial's return value is that function of its witness.
C4_LiarBound ==
    /\ (IsPrimeCall /\ pc = "ip_for" /\ ~IsPrimeNumber(n)) =>
           4 * Cardinality({w \in 2..(n - 2) : miller_rabin_test(n, s, r, w)})
               <= Cardinality(2..(n - 2))
    /\ (pc = "ip_ret" => tret = miller_rabin_test(tn, ts, tr, a))

C4_Witness ==
    /\ IsPrimeCall /\ pc = "ip_ret" /\ n = 133 /\ a = 11 /\ tret

\* C5: for odd n > 1 the decomposer returns (s, r) with r * 2^s = n - 1, r odd,
\* s >= 1; s is the number of trailing zero bits of n - 1 and no other pair
\* with an odd second component decomposes n - 1.
C5_Decomposition ==
    ((pc = "ip_for" /\ i = 0) \/ (entry = "find_miller_rabin_r_s" /\ pc = "done")) =>
        /\ r * Pow2Capped(s, n) = n - 1
        /\ r % 2 = 1
        /\ s >= 1
        /\ s = TrailingZeros(n - 1)
        /\ \A s2 \in 0..(n - 1), r2 \in 1..(n - 1) :
               (r2 % 2 = 1 /\ r2 * Pow2Capped(s2, n) = n - 1) => (s2 = s /\ r2 = r)

C5_Witness ==
    /\ entry = "find_miller_rabin_r_s" /\ pc = "done"
    /\ n = 25 /\ s = 3 /\ r = 3

\* C6: for k <= 0 and odd n > 3 no trial is run, no witness is drawn, no error is
\* raised and the call returns True.
C6_NonPositiveK ==
    (IsPrimeCall /\ k <= 0 /\ OddAboveThree) =>
        /\ pc \in {"ip_start", "d_start", "d_loop", "ip_for", "done"}
        /\ trials = 0 /\ draws = 0
        /\ (pc = "done" => result = "True")

C6_Witness ==
    /\ Returned /\ n = 9 /\ k = 0 - MaxNegK /\ result = "True" /\ decompCalls = 1

\* C7: a trial returns True iff a^r mod n = 1 or a^(2^e * r) mod n = n - 1 for
\* some e in [0, s-1]; the loop never continues once a squaring gave 1 (that
\* trial returns False), and a trial whose s - 1 squarings never reach n - 1
\* returns False.
C7_StrongProbablePrime ==
    /\ (pc = "ip_ret" => (tret <=> StrongProbablePrime(tn, ts, tr, a)))
    /\ (pc = "t_while" => x # 1)
    /\ (pc = "ip_ret" /\ squarings > 0 /\ x = 1 => ~tret)
    /\ (pc = "ip_ret" /\ x # 1 /\ x # tn - 1 => ~tret /\ squarings = ts - 1)

C7_Witness ==
    /\ pc = "ip_ret" /\ tn = 85 /\ a = 13 /\ tret /\ squarings = 1

\* C8: for odd n > 3 and k >= 0 the decomposer is called exactly once, before any
\* trial; every trial gets the caller's n and the returned (s, r), which never
\* change afterwards; a trial returning False ends the call with False and no
\* further draw; True is returned only after exactly k trials that all returned
\* True; never more than k trials run.
C8_StateInv ==
    (IsPrimeCall /\ OddAboveThree /\ k >= 0) =>
        /\ decompCalls <= 1
        /\ (InDecomposer \/ pc = "ip_start" => trials = 0 /\ draws = 0)
        /\ (Decomposed => decompCalls = 1)
        /\ (InTrial => tn = n /\ ts = s /\ tr = r)
        /\ trials <= k /\ draws <= trials /\ trials = i
        /\ (pc = "done" /\ result = "False" =>
               ~tret /\ trials >= 1 /\ draws = trials /\ passed = trials - 1)
        /\ (pc = "done" /\ result = "True" => trials = k /\ passed = k)

C8_Step ==
    /\ n' = n /\ k' = k
    /\ (Decomposed => s' = s /\ r' = r)
    /\ (pc = "ip_ret" /\ ~tret =>
           pc' = "done" /\ result' = "False" /\ draws' = draws /\ trials' = trials)

C8_Orchestration == [](C8_StateInv) /\ [][C8_Step]_vars

C8_Witness ==
    /\ Returned /\ n = 85 /\ k = DefaultK
    /\ result = "False" /\ trials = 2 /\ passed = 1

C10_StateInv ==
    /\ (Returned => result \in {"True", "False"})
    /\ (pc # "done" => result = "None")
    /\ pc # "ValueError"
    /\ (pc = "d_loop" => dr > 0 /\ halvings = ds /\ dr * Pow2Capped(ds, n) = n - 1)
    /\ (Decomposed => halvings = s /\ r % 2 = 1)
    /\ (InTrial => squarings <= ts - 1 \/ (squarings = 0 /\ pc = "t_draw"))

C10_Totality == <>(pc = "done") /\ [](C10_StateInv)

C10_Witness ==
    /\ Returned /\ n = 133 /\ k = DefaultK /\ result = "True" /\ passed = DefaultK

====
